---- MODULE Spec2Model ----
(***************************************************************************)
(* SimpleMemcached (src/cache.py): an in-memory cache whose operations run *)
(* under one re-entrant lock.  Client threads (one per connection,         *)
(* src/servidor.py) call the engine; every call is modelled as the steps   *)
(* it takes: waiting at `with self.lock`, the expiry-aware lookup, the     *)
(* method body, the nested call of set, and the release of the lock.       *)
(* The wall clock (time.time()) is the variable now; it may advance        *)
(* between any two steps.  The protocol adapter (CacheTCPHandler.handle)   *)
(* is modelled on top of the engine: a handler thread reads a request      *)
(* line, waits for the payload, calls the engine and writes the answer.    *)
(***************************************************************************)
EXTENDS Integers, Sequences, FiniteSets, TLC

\* ------------------------------------------------------------------ bounds
\* Total number of engine calls issued by all clients.
MaxCalls == 3
\* The same, in the specification of the read-then-cas protocol (CasSpec).
MaxCasCalls == 4
\* Number of clock ticks after StartTime.
MaxTick == 2
\* Largest number stored or given as a delta in the specification of incr and
\* decr (NumSpec), and the number of engine calls there.
MaxNum == 11
MaxNumCalls == 2
\* Total number of request lines read by the handler threads (AdapterSpec).
MaxRequests == 2
\* Total number of engine calls in the specification with fairness (LiveSpec).
MaxLiveCalls == 3
\* The clock's first reading (time.time() is far from 0 in any real run).
StartTime == 2

\* ------------------------------------------------------------------ inputs
Threads == {1, 2}
NoThread == 0
Keys == {"k1", "k2"}

VARIABLES
    store,          \* self.store: key -> (value, flags, expire_at, cas_token)
    cas_versions,   \* self.cas_versions: key -> int
    lock,           \* self.lock: the RLock's owner and recursion count
    now,            \* time.time()
    calls,          \* engine calls issued so far
    pc,             \* where each client thread stands
    op,             \* the call each client thread is making
    frame,          \* the parameters of the call of set a thread is in
    meta,           \* the local `meta` a thread got from _get_valid
    gm,             \* get_multi's loop: position in keys and the dict built
    res,            \* the value a call returns
    pre,            \* history: Store, Version Counter and clock as the running call found them
    view,           \* history: Store and Version Counter as each running call last saw them
    got,            \* history: the token a client read with gets, and whether another
                    \* client has updated the key since
    race,           \* history: two cas calls were pending together on a live key,
                    \* both with its current token
    parts,          \* handle: the split request line each handler thread is serving
    rfile,          \* handle: the payload after the line: the bytes the client sends,
                    \* how many have arrived, and whether the client has closed
    wfile,          \* handle: the lines written in answer to the request in hand
    requests        \* request lines read so far

adapter == <<parts, rfile, wfile, requests>>

vars == <<store, cas_versions, lock, now, calls, pc, op, frame, meta, gm, res,
          pre, view, got, race, parts, rfile, wfile, requests>>

\* ------------------------------------------------------- text and numbers
Digits == <<"0", "1", "2", "3", "4", "5", "6", "7", "8", "9">>
Chars == {Digits[i] : i \in 1..10} \cup {"a", "-"}

IsDigit(c) == \E i \in 1..10 : Digits[i] = c
DigitVal(c) == (CHOOSE i \in 1..10 : Digits[i] = c) - 1

\* ord() of a character and chr() of a byte
Ord(c) == IF IsDigit(c) THEN 48 + DigitVal(c) ELSE IF c = "a" THEN 97 ELSE 45
Chr(b) == CHOOSE c \in Chars : Ord(c) = b

\* str.encode() and bytes.decode()
encode(s) == [i \in 1..Len(s) |-> Ord(s[i])]
decode(b) == [i \in 1..Len(b) |-> Chr(b[i])]

RECURSIVE DigitsValue(_)
DigitsValue(s) ==
    IF Len(s) = 0 THEN 0
    ELSE 10 * DigitsValue(SubSeq(s, 1, Len(s) - 1)) + DigitVal(s[Len(s)])

AllDigits(s) == Len(s) >= 1 /\ \A i \in 1..Len(s) : IsDigit(s[i])

\* int(s) raises ValueError unless s is an optionally signed run of digits
IsInt(s) ==
    /\ Len(s) >= 1
    /\ IF s[1] = "-" THEN AllDigits(Tail(s)) ELSE AllDigits(s)

int(s) == IF s[1] = "-" THEN 0 - DigitsValue(Tail(s)) ELSE DigitsValue(s)

RECURSIVE NatStr(_)
NatStr(n) ==
    IF n < 10 THEN <<Digits[n + 1]>>
    ELSE NatStr(n \div 10) \o <<Digits[(n % 10) + 1]>>

\* str(n)
str(n) == IF n < 0 THEN <<"-">> \o NatStr(0 - n) ELSE NatStr(n)

max_NoFloor(a, b) == b
max(a, b) == IF a >= b THEN a ELSE b

\* ------------------------------------------------------------ dictionaries
None == <<>>
Some(x) == <<x>>
Pop_All(d, key) == [x \in {} |-> 0]
Pop(d, key) == [x \in DOMAIN d \ {key} |-> d[x]]
Put(d, key, v) == [x \in DOMAIN d \cup {key} |-> IF x = key THEN v ELSE d[x]]
Get(d, key, default) == IF key \in DOMAIN d THEN d[key] ELSE default
EmptyDict == [x \in {} |-> 0]

Entry(value, flags, expire, cas) ==
    [value |-> value, flags |-> flags, expire |-> expire, cas |-> cas]

\* ------------------------------------------------------- engine's helpers
_is_expired(m, t) == m.expire # 0 /\ t > m.expire

_get_valid_Forgets(st, cv, key, t) ==
    [meta |-> None, store |-> Pop(st, key), cas_versions |-> Pop(cv, key)]

_get_valid_KeepsVersion(st, cv, key, t) ==
    IF key \in DOMAIN st /\ ~_is_expired(st[key], t)
    THEN [meta |-> Some(st[key]), store |-> st, cas_versions |-> cv]
    ELSE [meta |-> None, store |-> Pop(st, key), cas_versions |-> cv]

_get_valid(st, cv, key, t) ==
    IF key \in DOMAIN st /\ ~_is_expired(st[key], t)
    THEN [meta |-> Some(st[key]), store |-> st, cas_versions |-> cv]
    ELSE [meta |-> None, store |-> Pop(st, key), cas_versions |-> Pop(cv, key)]

_next_cas_token_Stuck(cv, key) == Put(cv, key, Get(cv, key, 1))

_next_cas_token(cv, key) == Put(cv, key, Get(cv, key, 0) + 1)

\* expire_at as set computes it, and as add computes it
SetExpireAt(t, exptime) == IF exptime > 0 THEN t + exptime ELSE 0
AddExpireAt(t, exptime) == IF exptime # 0 THEN t + exptime ELSE 0

\* ------------------------------------------------------------------- calls
Call(name, key, value, flags, exptime, token, keys) ==
    [name |-> name, key |-> key, value |-> value, flags |-> flags,
     exptime |-> exptime, cas_token |-> token, keys |-> keys]

NoCall == Call("none", "k1", <<>>, 0, 0, 0, <<>>)
NoFrame == [key |-> "k1", value |-> <<>>, flags |-> 0, exptime |-> 0]
Frame(key, value, flags, exptime) ==
    [key |-> key, value |-> value, flags |-> flags, exptime |-> exptime]

\* What the clients send: numeric and non-numeric values, flags 0 and 1, a
\* ttl that is positive, zero and negative, fresh and stale tokens.
Stores(name, key) ==
    {Call(name, key, <<"1">>, 1, 1, 0, <<>>), Call(name, key, <<"a">>, 0, 0, 0, <<>>)}

Requests ==
    Stores("set", "k1") \cup Stores("add", "k1") \cup Stores("replace", "k1")
    \cup {Call("set", "k2", <<"1">>, 1, 1, 0, <<>>),
          Call("add", "k1", <<"a">>, 0, -1, 0, <<>>),
          Call("cas", "k1", <<"1">>, 1, 1, 1, <<>>),
          Call("cas", "k1", <<"a">>, 0, 0, 1, <<>>),
          Call("cas", "k1", <<"a">>, 0, 0, 2, <<>>),
          Call("append", "k1", <<"1">>, 0, 0, 0, <<>>),
          Call("append", "k1", <<"a">>, 0, 0, 0, <<>>),
          Call("prepend", "k1", <<"a">>, 0, 0, 0, <<>>),
          Call("incr", "k1", <<"1">>, 0, 0, 0, <<>>),
          Call("incr", "k1", <<"a">>, 0, 0, 0, <<>>),
          Call("decr", "k1", <<"1">>, 0, 0, 0, <<>>),
          Call("decr", "k1", <<"2">>, 0, 0, 0, <<>>),
          Call("get", "k1", <<>>, 0, 0, 0, <<>>),
          Call("gets", "k1", <<>>, 0, 0, 0, <<>>),
          Call("delete", "k1", <<>>, 0, 0, 0, <<>>),
          Call("get_multi", "k1", <<>>, 0, 0, 0, <<"k1", "k2">>),
          Call("flush_all", "k1", <<>>, 0, 0, 0, <<>>)}

Result(status, value, cas) == [status |-> status, value |-> value, cas |-> cas]
Status(s) == Result(s, <<>>, 0)
NoResult == Status("none")

NoPre == [store |-> EmptyDict, cas_versions |-> EmptyDict, now |-> 0]
NoGm == [i |-> 0, out |-> EmptyDict]

NoView == [store |-> EmptyDict, cas_versions |-> EmptyDict]
NoGot == [key |-> "k1", token |-> 0, dirty |-> FALSE]

\* The calls of the read-then-cas protocol: a client reads a token with gets
\* and writes with cas while another client updates the key.
CasRequests ==
    {Call("set", "k1", <<"a">>, 0, 0, 0, <<>>),
     Call("set", "k1", <<"1">>, 1, 1, 0, <<>>),
     Call("add", "k1", <<"a">>, 0, 0, 0, <<>>),
     Call("gets", "k1", <<>>, 0, 0, 0, <<>>),
     Call("append", "k1", <<"1">>, 0, 0, 0, <<>>),
     Call("incr", "k1", <<"1">>, 0, 0, 0, <<>>),
     Call("delete", "k1", <<>>, 0, 0, 0, <<>>),
     Call("cas", "k1", <<"1">>, 1, 1, 1, <<>>),
     Call("cas", "k1", <<"a">>, 0, 0, 1, <<>>)}

\* The calls of a counter: a client stores the decimal text of a number, and
\* clients increment and decrement it by non-negative deltas.
NumRequests ==
    {Call("set", "k1", str(n), 0, 0, 0, <<>>) : n \in -1..MaxNum}
    \cup {Call("incr", "k1", str(d), 0, 0, 0, <<>>) : d \in 0..MaxNum}
    \cup {Call("decr", "k1", str(d), 0, 0, 0, <<>>) : d \in 0..MaxNum}

NoPayload == [body |-> <<>>, arrived |-> 0, eof |-> FALSE]

\* The calls that take the lock twice (replace, cas, incr and decr call set
\* while holding it), with the calls that make them succeed and fail, and
\* get_multi, which can leave its `with` block by an exception.
LiveRequests ==
    {Call("set", "k1", <<"1">>, 1, 1, 0, <<>>),
     Call("set", "k1", <<"a">>, 0, 0, 0, <<>>),
     Call("replace", "k1", <<"a">>, 0, 0, 0, <<>>),
     Call("cas", "k1", <<"1">>, 1, 1, 1, <<>>),
     Call("incr", "k1", <<"1">>, 0, 0, 0, <<>>),
     Call("decr", "k1", <<"1">>, 0, 0, 0, <<>>),
     Call("get_multi", "k1", <<>>, 0, 0, 0, <<"k1", "k2">>)}

\* ------------------------------------------------------------------- state
Init ==
    /\ store = EmptyDict
    /\ cas_versions = EmptyDict
    /\ lock = [owner |-> NoThread, count |-> 0]
    /\ now = StartTime
    /\ calls = 0
    /\ pc = [t \in Threads |-> "idle"]
    /\ op = [t \in Threads |-> NoCall]
    /\ frame = [t \in Threads |-> NoFrame]
    /\ meta = [t \in Threads |-> None]
    /\ gm = [t \in Threads |-> NoGm]
    /\ res = [t \in Threads |-> NoResult]
    /\ pre = NoPre
    /\ view = [t \in Threads |-> NoView]
    /\ got = [t \in Threads |-> NoGot]
    /\ race = FALSE
    /\ parts = [t \in Threads |-> <<>>]
    /\ rfile = [t \in Threads |-> NoPayload]
    /\ wfile = [t \in Threads |-> <<>>]
    /\ requests = 0

\* The running call of thread t has seen the Store and Version Counter as this
\* step leaves them.
Observe(t) ==
    view' = [view EXCEPT ![t] = [store |-> store', cas_versions |-> cas_versions']]

Live(st, key, t) == key \in DOMAIN st /\ ~_is_expired(st[key], t)

\* The clock advances.
Tick ==
    /\ now < StartTime + MaxTick
    /\ now' = now + 1
    /\ UNCHANGED <<store, cas_versions, lock, calls, pc, op, frame, meta, gm, res,
                   pre, view, got, race>>
    /\ UNCHANGED adapter

\* Thread t's call o meets a pending cas of another thread on the same live
\* key, both carrying the entry's current token.
Races(t, o) ==
    /\ o.name = "cas"
    /\ Live(store, o.key, now)
    /\ store[o.key].cas = o.cas_token
    /\ \E u \in Threads \ {t} :
        /\ pc[u] = "lock"
        /\ op[u].name = "cas"
        /\ op[u].key = o.key
        /\ op[u].cas_token = o.cas_token

\* A client thread calls an engine method, one of the requests R, and arrives
\* at the method's `with self.lock`.
Enter(t, o) ==
    /\ op' = [op EXCEPT ![t] = o]
    /\ frame' = [frame EXCEPT ![t] =
            IF o.name = "set" THEN Frame(o.key, o.value, o.flags, o.exptime)
            ELSE NoFrame]
    /\ race' = (race \/ Races(t, o))
    /\ calls' = calls + 1
    /\ pc' = [pc EXCEPT ![t] = "lock"]
    /\ UNCHANGED <<store, cas_versions, lock, now, meta, gm, res, pre, view, got>>

InvokeFrom(t, R, limit) ==
    /\ pc[t] = "idle"
    /\ calls < limit
    /\ \E o \in R : Enter(t, o)
    /\ UNCHANGED adapter

Invoke(t) == InvokeFrom(t, Requests, MaxCalls)

CasInvoke(t) == InvokeFrom(t, CasRequests, MaxCasCalls)

NumInvoke(t) == InvokeFrom(t, NumRequests, MaxNumCalls)

LiveInvoke(t) == InvokeFrom(t, LiveRequests, MaxLiveCalls)

\* threading.RLock: free, or already held by the caller.
CanAcquire_Unlocked(t) == TRUE
CanAcquire_NotReentrant(t) == lock.owner = NoThread
CanAcquire(t) == lock.owner = NoThread \/ lock.owner = t

AfterLock(t) ==
    IF op[t].name = "set" THEN "set_body"
    ELSE IF op[t].name = "flush_all" THEN "flush"
    ELSE IF op[t].name = "get_multi" THEN "gm_filter"
    ELSE "lookup"

\* `with self.lock:` of the method called, and of set when called by another
\* method that already holds the lock.
Acquire(t) ==
    /\ pc[t] \in {"lock", "set_lock"}
    /\ CanAcquire(t)
    /\ lock' = [owner |-> t, count |-> lock.count + 1]
    /\ pc' = [pc EXCEPT ![t] = IF pc[t] = "lock" THEN AfterLock(t) ELSE "set_body"]
    /\ pre' = IF pc[t] = "lock"
              THEN [store |-> store, cas_versions |-> cas_versions, now |-> now]
              ELSE pre
    /\ UNCHANGED <<store, cas_versions, now, calls, op, frame, meta, gm, res, got, race>>
    /\ Observe(t)
    /\ UNCHANGED adapter

\* A call that changed the key's entry: what a holder of an older token must
\* not overwrite.
Updated(u) ==
    /\ op[u].name \in {"set", "add", "replace", "append", "prepend", "incr",
                       "decr", "cas", "delete"}
    /\ res[u].status \in {"STORED", "DELETED"}

\* Thread t holds a token for the key of u's call and has not yet used it.
HoldsToken(t, u) ==
    /\ t # u
    /\ got[t].token # 0
    /\ got[t].key = op[u].key
    /\ (pc[t] \in {"idle", "lock"} \/ op[t].name = "gets")

\* Leaving a `with self.lock:` block.
Release(t) ==
    /\ pc[t] = "unlock"
    /\ lock' = [owner |-> IF lock.count = 1 THEN NoThread ELSE lock.owner,
                count |-> lock.count - 1]
    /\ pc' = [pc EXCEPT ![t] = IF lock.count = 1 THEN "done" ELSE "unlock"]
    /\ pre' = IF lock.count = 1 THEN NoPre ELSE pre
    /\ view' = IF lock.count = 1 THEN [view EXCEPT ![t] = NoView] ELSE view
    /\ got' = IF lock.count = 1 /\ Updated(t)
              THEN [u \in Threads |->
                        IF HoldsToken(u, t) THEN [got[u] EXCEPT !.dirty = TRUE]
                        ELSE got[u]]
              ELSE got
    /\ UNCHANGED <<store, cas_versions, now, calls, op, frame, meta, gm, res, race>>
    /\ UNCHANGED adapter

\* The caller has the returned value; the thread is ready for its next call.
Leave(t) ==
    /\ pc[t] = "done"
    /\ pc' = [pc EXCEPT ![t] = "idle"]
    /\ op' = [op EXCEPT ![t] = NoCall]
    /\ frame' = [frame EXCEPT ![t] = NoFrame]
    /\ meta' = [meta EXCEPT ![t] = None]
    /\ gm' = [gm EXCEPT ![t] = NoGm]
    /\ res' = [res EXCEPT ![t] = NoResult]
    /\ got' = IF op[t].name = "gets" THEN got ELSE [got EXCEPT ![t] = NoGot]
    /\ race' = FALSE
    /\ UNCHANGED <<store, cas_versions, lock, now, calls, pre, view>>

Return(t) == Leave(t) /\ UNCHANGED adapter

\* The method returns r: next comes the exit of its `with` block.
Finish(t, r) ==
    /\ res' = [res EXCEPT ![t] = r]
    /\ pc' = [pc EXCEPT ![t] = "unlock"]

\* The method ends with `return self.set(key, value, flags, exptime)`.
CallSet(t, key, value, flags, exptime) ==
    /\ frame' = [frame EXCEPT ![t] = Frame(key, value, flags, exptime)]
    /\ pc' = [pc EXCEPT ![t] = "set_lock"]
    /\ UNCHANGED res

\* meta = self._get_valid(key), the first statement of every method but set,
\* flush_all and get_multi; delete asks `key in self.store` first.
Lookup(t) ==
    /\ pc[t] = "lookup"
    /\ LET k == op[t].key
           g == _get_valid(store, cas_versions, k, now)
       IN IF op[t].name = "delete" /\ k \notin DOMAIN store
          THEN /\ meta' = [meta EXCEPT ![t] = None]
               /\ UNCHANGED <<store, cas_versions>>
          ELSE /\ meta' = [meta EXCEPT ![t] = g.meta]
               /\ store' = g.store
               /\ cas_versions' = g.cas_versions
    /\ pc' = [pc EXCEPT ![t] = "body"]
    /\ UNCHANGED <<lock, now, calls, op, frame, gm, res, pre, got, race>>
    /\ Observe(t)
    /\ UNCHANGED adapter

\* set's body, under its own `with self.lock:`.
set(t) ==
    /\ pc[t] = "set_body"
    /\ LET f == frame[t]
           cv == _next_cas_token(cas_versions, f.key)
       IN /\ cas_versions' = cv
          /\ store' = Put(store, f.key,
                Entry(encode(f.value), f.flags, SetExpireAt(now, f.exptime), cv[f.key]))
    /\ Finish(t, Status("STORED"))
    /\ UNCHANGED <<lock, now, calls, op, frame, meta, gm, pre, got, race>>
    /\ Observe(t)
    /\ UNCHANGED adapter

get(t) ==
    /\ pc[t] = "body" /\ op[t].name = "get"
    /\ Finish(t, IF meta[t] # None
                 THEN Result("VALUE", decode(meta[t][1].value), 0)
                 ELSE Status("None"))
    /\ UNCHANGED <<store, cas_versions, lock, now, calls, op, frame, meta, gm, pre,
                   view, got, race>>
    /\ UNCHANGED adapter

gets(t) ==
    /\ pc[t] = "body" /\ op[t].name = "gets"
    /\ Finish(t, IF meta[t] # None
                 THEN Result("VALUE", decode(meta[t][1].value), meta[t][1].cas)
                 ELSE Status("None"))
    /\ got' = [got EXCEPT ![t] =
            IF meta[t] # None
            THEN [key |-> op[t].key, token |-> meta[t][1].cas, dirty |-> FALSE]
            ELSE NoGot]
    /\ UNCHANGED <<store, cas_versions, lock, now, calls, op, frame, meta, gm, pre,
                   view, race>>
    /\ UNCHANGED adapter

add(t) ==
    /\ pc[t] = "body" /\ op[t].name = "add"
    /\ IF meta[t] # None
       THEN /\ Finish(t, Status("NOT_STORED"))
            /\ UNCHANGED <<store, cas_versions>>
       ELSE LET o == op[t]
                cv == _next_cas_token(cas_versions, o.key)
            IN /\ cas_versions' = cv
               /\ store' = Put(store, o.key,
                    Entry(encode(o.value), o.flags, AddExpireAt(now, o.exptime), cv[o.key]))
               /\ Finish(t, Status("STORED"))
    /\ UNCHANGED <<lock, now, calls, op, frame, meta, gm, pre, got, race>>
    /\ Observe(t)
    /\ UNCHANGED adapter

replace_Upsert(t) ==
    /\ pc[t] = "body" /\ op[t].name = "replace"
    /\ CallSet(t, op[t].key, op[t].value, op[t].flags, op[t].exptime)
    /\ UNCHANGED <<store, cas_versions, lock, now, calls, op, meta, gm, pre,
                   view, got, race>>
    /\ UNCHANGED adapter

replace(t) ==
    /\ pc[t] = "body" /\ op[t].name = "replace"
    /\ IF meta[t] = None
       THEN /\ Finish(t, Status("NOT_STORED"))
            /\ UNCHANGED frame
       ELSE CallSet(t, op[t].key, op[t].value, op[t].flags, op[t].exptime)
    /\ UNCHANGED <<store, cas_versions, lock, now, calls, op, meta, gm, pre,
                   view, got, race>>
    /\ UNCHANGED adapter

\* the entry append and prepend write back
AppendEntry_NewToken(m, value) ==
    Entry(m.value \o encode(value), m.flags, m.expire, m.cas + 1)
AppendEntry(m, value) == Entry(m.value \o encode(value), m.flags, m.expire, m.cas)
PrependEntry(m, value) == Entry(encode(value) \o m.value, m.flags, m.expire, m.cas)

append(t) ==
    /\ pc[t] = "body" /\ op[t].name = "append"
    /\ IF meta[t] = None
       THEN /\ Finish(t, Status("NOT_STORED"))
            /\ UNCHANGED store
       ELSE /\ store' = Put(store, op[t].key, AppendEntry(meta[t][1], op[t].value))
            /\ Finish(t, Status("STORED"))
    /\ UNCHANGED <<cas_versions, lock, now, calls, op, frame, meta, gm, pre, got, race>>
    /\ Observe(t)
    /\ UNCHANGED adapter

prepend(t) ==
    /\ pc[t] = "body" /\ op[t].name = "prepend"
    /\ IF meta[t] = None
       THEN /\ Finish(t, Status("NOT_STORED"))
            /\ UNCHANGED store
       ELSE /\ store' = Put(store, op[t].key, PrependEntry(meta[t][1], op[t].value))
            /\ Finish(t, Status("STORED"))
    /\ UNCHANGED <<cas_versions, lock, now, calls, op, frame, meta, gm, pre, got, race>>
    /\ Observe(t)
    /\ UNCHANGED adapter

delete(t) ==
    /\ pc[t] = "body" /\ op[t].name = "delete"
    /\ IF meta[t] # None
       THEN /\ store' = Pop(store, op[t].key)
            /\ cas_versions' = Pop(cas_versions, op[t].key)
            /\ Finish(t, Status("DELETED"))
       ELSE /\ Finish(t, Status("NOT_FOUND"))
            /\ UNCHANGED <<store, cas_versions>>
    /\ UNCHANGED <<lock, now, calls, op, frame, meta, gm, pre, got, race>>
    /\ Observe(t)
    /\ UNCHANGED adapter

\* the exptime incr and decr hand to set: meta[2] - time.time()
RemainingTtl(m, t) == m.expire - t

incr(t) ==
    /\ pc[t] = "body" /\ op[t].name = "incr"
    /\ IF meta[t] = None
       THEN /\ Finish(t, Status("NOT_FOUND"))
            /\ UNCHANGED frame
       ELSE LET m == meta[t][1]
                val == decode(m.value)
            IN IF IsInt(val) /\ IsInt(op[t].value)
               THEN CallSet(t, op[t].key, str(int(val) + int(op[t].value)),
                            m.flags, RemainingTtl(m, now))
               ELSE /\ Finish(t, Status("CLIENT_ERROR cannot increment"))
                    /\ UNCHANGED frame
    /\ UNCHANGED <<store, cas_versions, lock, now, calls, op, meta, gm, pre,
                   view, got, race>>
    /\ UNCHANGED adapter

decr(t) ==
    /\ pc[t] = "body" /\ op[t].name = "decr"
    /\ IF meta[t] = None
       THEN /\ Finish(t, Status("NOT_FOUND"))
            /\ UNCHANGED frame
       ELSE LET m == meta[t][1]
                val == decode(m.value)
            IN IF IsInt(val) /\ IsInt(op[t].value)
               THEN CallSet(t, op[t].key, str(max(0, int(val) - int(op[t].value))),
                            m.flags, RemainingTtl(m, now))
               ELSE /\ Finish(t, Status("CLIENT_ERROR cannot decrement"))
                    /\ UNCHANGED frame
    /\ UNCHANGED <<store, cas_versions, lock, now, calls, op, meta, gm, pre,
                   view, got, race>>
    /\ UNCHANGED adapter

\* cas's comparison of the entry's token with the caller's
TokenMismatch_Never(current_token, cas_token) == FALSE
TokenMismatch(current_token, cas_token) == current_token # cas_token

cas(t) ==
    /\ pc[t] = "body" /\ op[t].name = "cas"
    /\ IF meta[t] = None
       THEN /\ Finish(t, Status("NOT_FOUND"))
            /\ UNCHANGED frame
       ELSE IF TokenMismatch(meta[t][1].cas, op[t].cas_token)
            THEN /\ Finish(t, Status("EXISTS"))
                 /\ UNCHANGED frame
            ELSE CallSet(t, op[t].key, op[t].value, op[t].flags, op[t].exptime)
    /\ UNCHANGED <<store, cas_versions, lock, now, calls, op, meta, gm, pre,
                   view, got, race>>
    /\ UNCHANGED adapter

flush_all_KeepsVersions(t) ==
    /\ pc[t] = "flush"
    /\ store' = EmptyDict
    /\ Finish(t, Status("OK"))
    /\ UNCHANGED <<cas_versions, lock, now, calls, op, frame, meta, gm, pre, got, race>>
    /\ Observe(t)
    /\ UNCHANGED adapter

flush_all(t) ==
    /\ pc[t] = "flush"
    /\ store' = EmptyDict
    /\ cas_versions' = EmptyDict
    /\ Finish(t, Status("OK"))
    /\ UNCHANGED <<lock, now, calls, op, frame, meta, gm, pre, got, race>>
    /\ Observe(t)
    /\ UNCHANGED adapter

\* get_multi's comprehension: the condition `if self._get_valid(k)` for the
\* next key of keys; the loop ends when keys is exhausted.
get_multi_filter(t) ==
    /\ pc[t] = "gm_filter"
    /\ LET i == gm[t].i + 1
       IN IF i > Len(op[t].keys)
          THEN /\ Finish(t, Result("DICT", gm[t].out, 0))
               /\ UNCHANGED <<store, cas_versions, gm>>
          ELSE LET g == _get_valid(store, cas_versions, op[t].keys[i], now)
               IN /\ store' = g.store
                  /\ cas_versions' = g.cas_versions
                  /\ UNCHANGED res
                  /\ IF g.meta # None
                     THEN /\ pc' = [pc EXCEPT ![t] = "gm_value"]
                          /\ UNCHANGED gm
                     ELSE /\ gm' = [gm EXCEPT ![t].i = i]
                          /\ UNCHANGED pc
    /\ UNCHANGED <<lock, now, calls, op, frame, meta, pre, got, race>>
    /\ Observe(t)
    /\ UNCHANGED adapter

\* get_multi's value expression `self._get_valid(k)[0].decode()`, a second
\* lookup of the same key: None[0] raises TypeError.
get_multi_value(t) ==
    /\ pc[t] = "gm_value"
    /\ LET i == gm[t].i + 1
           k == op[t].keys[i]
           g == _get_valid(store, cas_versions, k, now)
       IN /\ store' = g.store
          /\ cas_versions' = g.cas_versions
          /\ IF g.meta = None
             THEN /\ Finish(t, Status("TypeError"))
                  /\ UNCHANGED gm
             ELSE /\ gm' = [gm EXCEPT ![t] =
                        [i |-> i, out |-> Put(gm[t].out, k, decode(g.meta[1].value))]]
                  /\ pc' = [pc EXCEPT ![t] = "gm_filter"]
                  /\ UNCHANGED res
    /\ UNCHANGED <<lock, now, calls, op, frame, meta, pre, got, race>>
    /\ Observe(t)
    /\ UNCHANGED adapter

Next ==
    \/ Tick
    \/ \E t \in Threads :
        \/ Invoke(t)
        \/ Acquire(t)
        \/ Release(t)
        \/ Return(t)
        \/ Lookup(t)
        \/ set(t)
        \/ get(t)
        \/ gets(t)
        \/ add(t)
        \/ replace(t)
        \/ append(t)
        \/ prepend(t)
        \/ delete(t)
        \/ incr(t)
        \/ decr(t)
        \/ cas(t)
        \/ flush_all(t)
        \/ get_multi_filter(t)
        \/ get_multi_value(t)

Spec == Init /\ [][Next]_vars

\* The read-then-cas protocol alone, one call deeper.
CasNext ==
    \/ Tick
    \/ \E t \in Threads :
        \/ CasInvoke(t)
        \/ Acquire(t)
        \/ Release(t)
        \/ Return(t)
        \/ Lookup(t)
        \/ set(t)
        \/ gets(t)
        \/ add(t)
        \/ append(t)
        \/ delete(t)
        \/ incr(t)
        \/ cas(t)

CasSpec == Init /\ [][CasNext]_vars

\* A counter: set, incr and decr over a range of numbers.
NumNext ==
    \E t \in Threads :
        \/ NumInvoke(t)
        \/ Acquire(t)
        \/ Release(t)
        \/ Return(t)
        \/ Lookup(t)
        \/ set(t)
        \/ incr(t)
        \/ decr(t)

NumSpec == Init /\ [][NumNext]_vars

\* The steps of a call that is under way, the wait for the lock apart.
Run(t) ==
    \/ Release(t)
    \/ Return(t)
    \/ Lookup(t)
    \/ set(t)
    \/ replace(t)
    \/ incr(t)
    \/ decr(t)
    \/ cas(t)
    \/ get_multi_filter(t)
    \/ get_multi_value(t)

LiveNext ==
    \/ Tick
    \/ \E t \in Threads :
        \/ LiveInvoke(t)
        \/ Acquire(t)
        \/ Run(t)

\* Fair scheduling: a thread that can take a step of its call takes it, and a
\* thread that finds the lock free again and again gets it.
LiveSpec ==
    /\ Init
    /\ [][LiveNext]_vars
    /\ \A t \in Threads : WF_vars(Run(t)) /\ SF_vars(Acquire(t))

\* ------------------------------------------------------- protocol adapter
\* CacheTCPHandler.handle (src/servidor.py): one thread per connection reads a
\* request line, splits it, reads the payload of a storage command, calls the
\* engine and writes the answer.

\* The two bytes after a payload: "\r\n".
Terminator == <<13, 10>>

\* A request: the tokens of its line, and the bytes the client sends after it.
Command(p) == [parts |-> p, body |-> <<>>]
Storage(p, data) == [parts |-> p, body |-> encode(data) \o Terminator]

\* What the clients send: every command with and without the noreply marker,
\* every command that takes arguments also with too few of them, an argument
\* that is no number, and a command the handler does not know.  An argument
\* is one character, or a word that is no number.
Lines ==
    {Command(<<"get", "k1">>), Command(<<"GET", "k1">>), Command(<<"get">>),
     Command(<<"gets", "k1">>), Command(<<"gets">>),
     Storage(<<"set", "k1", "0", "0", "2">>, <<"1", "a">>),
     Storage(<<"set", "k1", "1", "0", "1", "noreply">>, <<"1">>),
     Command(<<"set", "k1">>),
     Command(<<"set", "k1", "a", "0", "1">>),
     Storage(<<"add", "k1", "0", "0", "1", "noreply">>, <<"a">>),
     Command(<<"add", "k1", "0">>),
     Storage(<<"replace", "k1", "0", "0", "1", "noreply">>, <<"a">>),
     Command(<<"replace">>),
     Storage(<<"append", "k1", "0", "0", "1">>, <<"1">>),
     Storage(<<"append", "k1", "0", "0", "1", "noreply">>, <<"1">>),
     Command(<<"append", "k1">>),
     Storage(<<"prepend", "k1", "0", "0", "1", "noreply">>, <<"a">>),
     Command(<<"prepend", "k1", "0", "0">>),
     Storage(<<"cas", "k1", "0", "0", "1", "1">>, <<"a">>),
     Storage(<<"cas", "k1", "0", "0", "1", "1", "noreply">>, <<"1">>),
     Command(<<"cas", "k1", "0", "0", "1">>),
     Command(<<"delete", "k1">>), Command(<<"delete", "k1", "noreply">>),
     Command(<<"delete">>),
     Command(<<"incr", "k1", "1">>), Command(<<"incr", "k1", "1", "noreply">>),
     Command(<<"incr", "k1">>),
     Command(<<"decr", "k1", "1", "noreply">>), Command(<<"decr">>),
     Command(<<"flush_all">>), Command(<<"flush_all", "noreply">>),
     Command(<<"bogus">>)}

\* parts[0].lower()
Lower(tok) == IF tok = "GET" THEN "get" ELSE tok

\* The characters of an argument.
Text(tok) == <<tok>>

\* parts[a:b], 0-based and exclusive of b as Python slices
Slice(p, a, b) == SubSeq(p, a + 1, IF Len(p) < b THEN Len(p) ELSE b)

\* "noreply" in parts
HasNoreply(p) == \E i \in 1..Len(p) : p[i] = "noreply"

\* int(x) succeeds for every x of the tokens given
AllInts(toks) == \A i \in 1..Len(toks) : IsInt(Text(toks[i]))

\* The lines of an answer.
StatusLine(text) == [text |-> text, key |-> "", len |-> 0, value |-> <<>>, cas |-> 0]
ValueLine(key, val, cas_token) ==
    [text |-> "VALUE", key |-> key, len |-> Len(val), value |-> val, cas |-> cas_token]

\* The handler has written one line and is back at readline.
Written(t, text) ==
    /\ wfile' = [wfile EXCEPT ![t] = <<StatusLine(text)>>]
    /\ UNCHANGED <<store, cas_versions, lock, now, calls, pc, op, frame, meta, gm,
                   res, pre, view, got, race>>

\* The handler is in self.rfile.read(nbytes + 2).
AwaitPayload(t) ==
    /\ pc' = [pc EXCEPT ![t] = "read"]
    /\ wfile' = [wfile EXCEPT ![t] = <<>>]
    /\ UNCHANGED <<store, cas_versions, lock, now, calls, op, frame, meta, gm,
                   res, pre, view, got, race>>

\* The handler calls the engine.
CallEngine(t, o) ==
    /\ Enter(t, o)
    /\ wfile' = [wfile EXCEPT ![t] = <<>>]

\* The try block of handle, up to the first read of a payload or call of the
\* engine; an exception is answered by the except clause.
Dispatch(t, p) ==
    LET cmd == Lower(p[1])
    IN IF cmd = "get"
       THEN IF Len(p) = 1 THEN Written(t, "END")
            ELSE CallEngine(t, Call("get", p[2], <<>>, 0, 0, 0, <<>>))
       ELSE IF cmd = "gets"
       THEN IF Len(p) < 2 THEN Written(t, "SERVER_ERROR list index out of range")
            ELSE CallEngine(t, Call("gets", p[2], <<>>, 0, 0, 0, <<>>))
       ELSE IF cmd \in {"set", "add", "replace"}
       THEN IF Len(Slice(p, 1, 5)) < 4
            THEN Written(t, "SERVER_ERROR not enough values to unpack")
            ELSE IF ~AllInts(Slice(p, 2, 5))
            THEN Written(t, "SERVER_ERROR invalid literal for int()")
            ELSE AwaitPayload(t)
       ELSE IF cmd \in {"append", "prepend"}
       THEN IF Len(p) < 5 THEN Written(t, "CLIENT_ERROR bad command line format")
            ELSE IF ~AllInts(Slice(p, 4, 5))
            THEN Written(t, "SERVER_ERROR invalid literal for int()")
            ELSE AwaitPayload(t)
       ELSE IF cmd = "cas"
       THEN IF Len(Slice(p, 1, 6)) < 5
            THEN Written(t, "SERVER_ERROR not enough values to unpack")
            ELSE IF ~AllInts(Slice(p, 2, 6))
            THEN Written(t, "SERVER_ERROR invalid literal for int()")
            ELSE AwaitPayload(t)
       ELSE IF cmd = "delete"
       THEN IF Len(p) < 2 THEN Written(t, "SERVER_ERROR list index out of range")
            ELSE CallEngine(t, Call("delete", p[2], <<>>, 0, 0, 0, <<>>))
       ELSE IF cmd \in {"incr", "decr"}
       THEN IF Len(p) < 3 THEN Written(t, "SERVER_ERROR list index out of range")
            ELSE CallEngine(t, Call(cmd, p[2], Text(p[3]), 0, 0, 0, <<>>))
       ELSE IF cmd = "flush_all"
       THEN CallEngine(t, Call("flush_all", "k1", <<>>, 0, 0, 0, <<>>))
       ELSE Written(t, "ERROR")

\* The handler reads the next request line of its connection and serves it up
\* to the first read of a payload or call of the engine.  After the client
\* has closed, readline returns b"" and the loop ends.
ReadLine(t) ==
    /\ pc[t] = "idle"
    /\ ~rfile[t].eof
    /\ requests < MaxRequests
    /\ requests' = requests + 1
    /\ \E r \in Lines :
        /\ parts' = [parts EXCEPT ![t] = r.parts]
        /\ rfile' = [rfile EXCEPT ![t] = [body |-> r.body, arrived |-> 0, eof |-> FALSE]]
        /\ Dispatch(t, r.parts)

\* One more byte of the payload reaches the server.
Arrive(t) ==
    /\ pc[t] = "read"
    /\ ~rfile[t].eof
    /\ rfile[t].arrived < Len(rfile[t].body)
    /\ rfile' = [rfile EXCEPT ![t].arrived = rfile[t].arrived + 1]
    /\ UNCHANGED <<store, cas_versions, lock, now, calls, pc, op, frame, meta, gm,
                   res, pre, view, got, race, parts, wfile, requests>>

\* The client closes the connection while the handler waits for the payload.
Close(t) ==
    /\ pc[t] = "read"
    /\ ~rfile[t].eof
    /\ rfile' = [rfile EXCEPT ![t].eof = TRUE]
    /\ UNCHANGED <<store, cas_versions, lock, now, calls, pc, op, frame, meta, gm,
                   res, pre, view, got, race, parts, wfile, requests>>

\* self.rfile.read(n)[:-2]: read returns when n bytes have arrived, or at the
\* end of the stream with the bytes that did arrive.
Payload(f, n) ==
    LET raw == SubSeq(f.body, 1, IF f.arrived < n THEN f.arrived ELSE n)
    IN SubSeq(raw, 1, max(0, Len(raw) - 2))

\* The handler gets the payload and calls the engine with it.  append and
\* prepend pass the bytes, which the engine stores as they are; the others
\* pass the decoded text, which the engine encodes.
ReadPayload(t) ==
    /\ pc[t] = "read"
    /\ LET p == parts[t]
           cmd == Lower(p[1])
           n == int(Text(p[5])) + 2
           data == decode(Payload(rfile[t], n))
       IN /\ rfile[t].arrived >= n \/ rfile[t].eof
          /\ Enter(t, IF cmd \in {"append", "prepend"}
                      THEN Call(cmd, p[2], data, 0, 0, 0, <<>>)
                      ELSE Call(cmd, p[2], data, int(Text(p[3])), int(Text(p[4])),
                                IF cmd = "cas" THEN int(Text(p[6])) ELSE 0, <<>>))
    /\ UNCHANGED adapter

\* What the handler writes when the engine has returned.
Response(p, r) ==
    LET cmd == Lower(p[1])
    IN IF cmd \in {"get", "gets"}
       THEN (IF r.status = "VALUE" THEN <<ValueLine(p[2], r.value, r.cas)>> ELSE <<>>)
            \o <<StatusLine("END")>>
       ELSE IF cmd \in {"append", "prepend", "incr", "decr"}
       THEN <<StatusLine(r.status)>>
       ELSE IF HasNoreply(p) THEN <<>> ELSE <<StatusLine(r.status)>>

\* The engine has returned: the handler writes the answer and is back at
\* readline.
Reply(t) ==
    /\ Leave(t)
    /\ wfile' = [wfile EXCEPT ![t] = Response(parts[t], res[t])]
    /\ UNCHANGED <<parts, rfile, requests>>

AdapterNext ==
    \E t \in Threads :
        \/ ReadLine(t)
        \/ Arrive(t)
        \/ Close(t)
        \/ ReadPayload(t)
        \/ Reply(t)
        \/ Acquire(t)
        \/ Release(t)
        \/ Lookup(t)
        \/ set(t)
        \/ get(t)
        \/ gets(t)
        \/ add(t)
        \/ replace(t)
        \/ append(t)
        \/ prepend(t)
        \/ delete(t)
        \/ incr(t)
        \/ decr(t)
        \/ cas(t)
        \/ flush_all(t)

AdapterSpec == Init /\ [][AdapterNext]_vars

\* ------------------------------------------------------------------ claims
\* A call has computed its result and stands at the exit of its `with` block:
\* pre holds the Store and Version Counter it found, store and cas_versions
\* what it leaves.
Returning(t) == pc[t] = "unlock"
Key(t) == op[t].key
PreAbsent(k) == k \notin DOMAIN pre.store
PreExpired(k) == k \in DOMAIN pre.store /\ _is_expired(pre.store[k], pre.now)
PreLive(k) == Live(pre.store, k, pre.now)
SingleKeyOps ==
    {"get", "gets", "set", "add", "replace", "append", "prepend", "delete",
     "incr", "decr", "cas"}

\* C1: two cas calls pending together on one key, both carrying the entry's
\* current token, the entry unexpired when each of them looks it up: one
\* returns STORED, the other EXISTS, and the entry holds the winner's value.
C1_CasRaceOneWinner ==
    (race /\ \A t \in Threads : pc[t] = "done" /\ meta[t] # None) =>
        \E w \in Threads : \E l \in Threads \ {w} :
            /\ res[w].status = "STORED"
            /\ res[l].status = "EXISTS"
            /\ Key(w) \in DOMAIN store
            /\ store[Key(w)].value = encode(op[w].value)

C1_Witness ==
    /\ race
    /\ \A t \in Threads : pc[t] = "done" /\ meta[t] # None
    /\ res[1].status = "EXISTS"
    /\ res[2].status = "STORED"
    /\ op[1].value # op[2].value

\* C2: a cas carrying the token its client read with gets, run after another
\* client completed a successful update of the key, does not return STORED.
C2_CasAfterUpdateFails ==
    \A t \in Threads :
        ( /\ pc[t] \in {"unlock", "done"}
          /\ op[t].name = "cas"
          /\ got[t].key = Key(t)
          /\ got[t].token = op[t].cas_token
          /\ got[t].dirty ) => res[t].status # "STORED"

InCall(t) ==
    pc[t] \in {"lookup", "body", "set_lock", "set_body", "flush", "gm_filter",
               "gm_value", "unlock"}

\* C3: a call between its acquisition of the lock and its release is the
\* lock's owner (so at most one call is there), and the Store and Version
\* Counter are as that call last saw them: no other call has touched them.
C3_MutualExclusion ==
    \A t \in Threads :
        InCall(t) =>
            /\ lock.owner = t
            /\ lock.count >= 1
            /\ view[t] = [store |-> store, cas_versions |-> cas_versions]

C3_Witness ==
    \E t \in Threads : \E u \in Threads \ {t} :
        /\ pc[t] = "set_lock"
        /\ op[t].name = "cas"
        /\ pc[u] = "lock"
        /\ op[u].name = "cas"

NeverSetStatus(name) ==
    IF name \in {"get", "gets"} THEN "None"
    ELSE IF name \in {"set", "add"} THEN "STORED"
    ELSE IF name \in {"replace", "append", "prepend"} THEN "NOT_STORED"
    ELSE "NOT_FOUND"

\* C4: a call on a key whose entry had expired before the call began returns
\* what it returns for a key never set, and leaves no entry for the key that
\* was expired when the call began.
C4_ExpiredIsAbsent ==
    \A t \in Threads :
        /\ (Returning(t) /\ op[t].name \in SingleKeyOps /\ PreExpired(Key(t))) =>
                /\ res[t].status = NeverSetStatus(op[t].name)
                /\ ~(Key(t) \in DOMAIN store /\ _is_expired(store[Key(t)], pre.now))
        /\ (Returning(t) /\ op[t].name = "get_multi" /\ res[t].status = "DICT") =>
                \A i \in 1..Len(op[t].keys) :
                    PreExpired(op[t].keys[i]) =>
                        /\ op[t].keys[i] \notin DOMAIN res[t].value
                        /\ op[t].keys[i] \notin DOMAIN store

\* C5: the token set or add issues for a key that had no entry, or an expired
\* one, when the call began is 1; the token any call issues for a key whose
\* entry stays unexpired is greater than the entry's previous token.
C5_TokensRestartAtOne ==
    \A t \in Threads :
        (Returning(t) /\ res[t].status = "STORED"
            /\ op[t].name \in {"set", "add", "replace", "cas", "incr", "decr"}) =>
            /\ (op[t].name \in {"set", "add"} /\ ~PreLive(Key(t))) =>
                    store[Key(t)].cas = 1
            /\ Live(pre.store, Key(t), now) =>
                    store[Key(t)].cas > pre.store[Key(t)].cas

Failed(r) ==
    r.status \in {"NOT_STORED", "NOT_FOUND", "EXISTS",
                  "CLIENT_ERROR cannot increment", "CLIENT_ERROR cannot decrement"}

\* C6: a call that returns NOT_STORED, NOT_FOUND, EXISTS or CLIENT_ERROR
\* leaves every unexpired entry as it found it.
C6_FailureLeavesEntries ==
    \A t \in Threads :
        (Returning(t) /\ Failed(res[t])) =>
            \A k \in Keys :
                Live(pre.store, k, now) =>
                    /\ k \in DOMAIN store
                    /\ store[k] = pre.store[k]
                    /\ k \in DOMAIN cas_versions
                    /\ cas_versions[k] = pre.cas_versions[k]

C6_Witness ==
    \E t \in Threads :
        /\ Returning(t)
        /\ res[t].status = "CLIENT_ERROR cannot increment"
        /\ Live(pre.store, Key(t), now)
        /\ store[Key(t)].expire # 0

\* C7: on a key with no entry get and gets return None, delete, incr, decr and
\* cas return NOT_FOUND, replace returns NOT_STORED, and add returns STORED
\* and creates the entry with the value given.
C7_AbsentKeyResults ==
    \A t \in Threads :
        (Returning(t) /\ PreAbsent(Key(t))
            /\ op[t].name \in (SingleKeyOps \ {"set", "append", "prepend"})) =>
            /\ res[t].status =
                    IF op[t].name \in {"get", "gets"} THEN "None"
                    ELSE IF op[t].name = "replace" THEN "NOT_STORED"
                    ELSE IF op[t].name = "add" THEN "STORED"
                    ELSE "NOT_FOUND"
            /\ op[t].name = "add" =>
                    /\ Key(t) \in DOMAIN store
                    /\ decode(store[Key(t)].value) = op[t].value
            /\ op[t].name # "add" => Key(t) \notin DOMAIN store

C7_Witness ==
    \E t \in Threads :
        /\ Returning(t)
        /\ op[t].name = "replace"
        /\ PreAbsent(Key(t))
        /\ cas_versions # EmptyDict
        /\ res[t].status = "NOT_STORED"

\* C8: a successful append or prepend leaves the entry with the old value
\* followed, respectively preceded, by the bytes given, with the flags,
\* expire_at and token it had, and leaves the Version Counter as it was.
C8_AppendKeepsMeta ==
    \A t \in Threads :
        (Returning(t) /\ op[t].name \in {"append", "prepend"}
            /\ res[t].status = "STORED") =>
            /\ Key(t) \in DOMAIN pre.store
            /\ Key(t) \in DOMAIN store
            /\ LET old == pre.store[Key(t)]
                   new == store[Key(t)]
               IN /\ decode(new.value) =
                        IF op[t].name = "append"
                        THEN decode(old.value) \o op[t].value
                        ELSE op[t].value \o decode(old.value)
                  /\ new.flags = old.flags
                  /\ new.expire = old.expire
                  /\ new.cas = old.cas
            /\ cas_versions = pre.cas_versions

C8_Witness ==
    \E t \in Threads :
        /\ Returning(t)
        /\ op[t].name = "append"
        /\ res[t].status = "STORED"
        /\ pre.store[Key(t)].expire # 0
        /\ pre.store[Key(t)].flags # 0
        /\ store[Key(t)].value # pre.store[Key(t)].value

\* C9: a successful incr or decr leaves the entry's expire_at and flags as
\* they were.
C9_IncrKeepsExpiry ==
    \A t \in Threads :
        (Returning(t) /\ op[t].name \in {"incr", "decr"}
            /\ res[t].status = "STORED") =>
            /\ store[Key(t)].expire = pre.store[Key(t)].expire
            /\ store[Key(t)].flags = pre.store[Key(t)].flags

\* C10: a successful set, replace, cas, incr or decr on a key whose entry was
\* unexpired when the call began leaves the entry with a greater token; after
\* set, replace and cas the entry decodes to the value given, which is what
\* get returns.
C10_WritesAdvanceToken ==
    \A t \in Threads :
        /\ (Returning(t) /\ res[t].status = "STORED" /\ PreLive(Key(t))
                /\ op[t].name \in {"set", "replace", "cas", "incr", "decr"}) =>
                /\ store[Key(t)].cas > pre.store[Key(t)].cas
                /\ op[t].name \in {"set", "replace", "cas"} =>
                        decode(store[Key(t)].value) = op[t].value
        /\ (Returning(t) /\ op[t].name = "get" /\ res[t].status = "VALUE") =>
                res[t].value = decode(store[Key(t)].value)

C10_Witness ==
    \E t \in Threads :
        /\ Returning(t)
        /\ op[t].name = "set"
        /\ PreLive(Key(t))
        /\ decode(pre.store[Key(t)].value) # op[t].value
        /\ store[Key(t)].cas = 2

\* The text is the decimal text of an integer, as str writes it.
IsDecimalText(s) == IsInt(s) /\ str(int(s)) = s
IncrCase(t) ==
    /\ Returning(t)
    /\ op[t].name \in {"incr", "decr"}
    /\ meta[t] # None
    /\ IsDecimalText(decode(meta[t][1].value))
    /\ IsDecimalText(op[t].value)
    /\ int(op[t].value) >= 0

\* C11: incr on an unexpired entry holding the decimal text of n, with a
\* non-negative delta d, stores the decimal text of n + d; decr stores the
\* decimal text of n - d when that is positive and "0" otherwise, never a
\* text with a minus sign.
C11_IncrDecrArithmetic ==
    \A t \in Threads :
        IncrCase(t) =>
            LET n == int(decode(pre.store[Key(t)].value))
                d == int(op[t].value)
                new == decode(store[Key(t)].value)
            IN /\ res[t].status = "STORED"
               /\ IsDecimalText(new)
               /\ op[t].name = "incr" => int(new) = n + d
               /\ op[t].name = "decr" =>
                    /\ int(new) = (IF n - d > 0 THEN n - d ELSE 0)
                    /\ new[1] # "-"

C11_Witness ==
    \E t \in Threads :
        /\ IncrCase(t)
        /\ op[t].name = "decr"
        /\ int(decode(pre.store[Key(t)].value)) = 9
        /\ int(op[t].value) = 10
        /\ decode(store[Key(t)].value) = <<"0">>

\* The key has neither an entry nor a version counter when the call begins,
\* which is how flush_all leaves every key.
PreFlushed(k) == k \notin DOMAIN pre.store /\ k \notin DOMAIN pre.cas_versions

\* C12: flush_all returns OK and leaves the Store and the Version Counter
\* empty; a get or gets that finds a key so returns nothing, and a set that
\* finds a key so gives the entry token 1.
C12_FlushEmptiesAll ==
    \A t \in Threads :
        /\ (Returning(t) /\ op[t].name = "flush_all") =>
                /\ res[t].status = "OK"
                /\ store = EmptyDict
                /\ cas_versions = EmptyDict
        /\ (Returning(t) /\ op[t].name \in {"get", "gets"} /\ PreFlushed(Key(t))) =>
                res[t].status = "None"
        /\ (Returning(t) /\ op[t].name = "set" /\ PreFlushed(Key(t))) =>
                /\ store[Key(t)].cas = 1
                /\ cas_versions[Key(t)] = 1

C12_Witness ==
    \E t \in Threads :
        /\ Returning(t)
        /\ op[t].name = "flush_all"
        /\ "k1" \in DOMAIN pre.store
        /\ pre.cas_versions["k1"] = 2
        /\ store = EmptyDict
        /\ cas_versions = EmptyDict

\* The mapping holds only requested keys whose entry was unexpired when the
\* call began, each with its value, and every requested key that is unexpired
\* when the call ends.
ExactlyLive(t, d) ==
    /\ \A k \in DOMAIN d :
            /\ \E i \in 1..Len(op[t].keys) : op[t].keys[i] = k
            /\ PreLive(k)
            /\ d[k] = decode(pre.store[k].value)
    /\ \A i \in 1..Len(op[t].keys) :
            Live(store, op[t].keys[i], now) => op[t].keys[i] \in DOMAIN d

\* C13: get_multi returns a mapping, never an exception, and the mapping
\* holds exactly the requested keys that are present and unexpired, each with
\* its value, also when an entry's expire_at passes while the call runs.
C13_GetMultiNeverRaises ==
    \A t \in Threads :
        (Returning(t) /\ op[t].name = "get_multi") =>
            /\ res[t].status = "DICT"
            /\ ExactlyLive(t, res[t].value)

\* The handler has served the request line in parts[t] and is back at
\* readline; wfile[t] holds what it wrote in answer.
Answered(t) == parts[t] # <<>> /\ pc[t] = "idle"
Cmd(t) == Lower(parts[t][1])
ReadCommands == {"get", "gets"}
NonReadCommands ==
    {"set", "add", "replace", "append", "prepend", "cas", "delete", "incr",
     "decr", "flush_all"}
\* The number of arguments a command requires, and the number a line gives.
Required(cmd) ==
    IF cmd \in {"set", "add", "replace", "append", "prepend"} THEN 4
    ELSE IF cmd = "cas" THEN 5
    ELSE IF cmd \in {"incr", "decr"} THEN 2
    ELSE IF cmd = "flush_all" THEN 0
    ELSE 1
Given(p) == Len(p) - 1 - (IF HasNoreply(p) THEN 1 ELSE 0)
TooFew(p) ==
    /\ Lower(p[1]) \in ReadCommands \cup NonReadCommands
    /\ Given(p) < Required(Lower(p[1]))
\* The line names a command and gives all its arguments, numbers where the
\* command takes numbers.
WellFormed(p) ==
    /\ Lower(p[1]) \in ReadCommands \cup NonReadCommands
    /\ ~TooFew(p)
    /\ Lower(p[1]) \in {"set", "add", "replace", "append", "prepend", "cas"} =>
            AllInts(Slice(p, 2, 1 + Required(Lower(p[1]))))

\* C14: a well-formed request of a non-read command with the noreply marker
\* is served without a line written to the connection; a well-formed get or
\* gets is always answered.
C14_NoreplyWritesNothing ==
    \A t \in Threads :
        (Answered(t) /\ WellFormed(parts[t])) =>
            /\ (Cmd(t) \in NonReadCommands /\ HasNoreply(parts[t])) => wfile[t] = <<>>
            /\ Cmd(t) \in ReadCommands => wfile[t] # <<>>

\* C15: a request line with fewer arguments than its command requires is
\* answered with one client-error line, without a call of the engine, and the
\* handler is back at readline with the connection open.
C15_TooFewIsClientError ==
    \A t \in Threads :
        (parts[t] # <<>> /\ TooFew(parts[t])) =>
            /\ pc[t] = "idle"
            /\ op[t] = NoCall
            /\ ~rfile[t].eof
            /\ wfile[t] = <<StatusLine("CLIENT_ERROR bad command line format")>>

\* The client closed the connection before the whole payload and its
\* terminator had arrived.
Truncated(t) == rfile[t].eof /\ rfile[t].arrived < Len(rfile[t].body)

\* C16: when the client closes the connection before the whole payload and
\* its two-byte terminator have arrived, the handler makes no call of the
\* engine for the request.
C16_NoCallOnTruncatedPayload ==
    \A t \in Threads : Truncated(t) => op[t] = NoCall

\* The Store and Version Counter that set(key, value, flags, exptime) leaves
\* when called at time tm in the state the running call found.
SetFromPre(key, value, flags, exptime, tm) ==
    LET cv == _next_cas_token(pre.cas_versions, key)
    IN [store |-> Put(pre.store, key,
                      Entry(encode(value), flags, SetExpireAt(tm, exptime), cv[key])),
        cas_versions |-> cv]

\* C17: an add that stores leaves the Store and the Version Counter as set
\* with the same arguments leaves them from the state the add found, at some
\* instant of the call: same value, flags, expire_at and token.
C17_AddStoresAsSet ==
    \A t \in Threads :
        (Returning(t) /\ op[t].name = "add" /\ res[t].status = "STORED") =>
            \E tm \in pre.now..now :
                LET s == SetFromPre(Key(t), op[t].value, op[t].flags, op[t].exptime, tm)
                IN store = s.store /\ cas_versions = s.cas_versions

\* The dictionary holds for the key what it held when the call began.
SameAt(d, old, k) ==
    /\ k \in DOMAIN d <=> k \in DOMAIN old
    /\ k \in DOMAIN d => d[k] = old[k]

\* C18: a call of a single-key method leaves the entry and the version
\* counter of every other key as it found them.
C18_OtherKeysUntouched ==
    \A t \in Threads :
        (Returning(t) /\ op[t].name \in SingleKeyOps) =>
            \A k \in Keys \ {Key(t)} :
                /\ SameAt(store, pre.store, k)
                /\ SameAt(cas_versions, pre.cas_versions, k)

C18_Witness ==
    \E t \in Threads :
        /\ Returning(t)
        /\ op[t].name = "delete"
        /\ res[t].status = "DELETED"
        /\ Key(t) = "k1"
        /\ "k2" \in DOMAIN store
        /\ "k2" \in DOMAIN cas_versions
        /\ "k1" \notin DOMAIN store

\* C19: whenever no thread holds the lock, the Store and the Version Counter
\* have the same keys, and every entry's token is its key's version counter.
C19_TokensMatchCounters ==
    lock.owner = NoThread =>
        /\ DOMAIN store = DOMAIN cas_versions
        /\ \A k \in DOMAIN store : store[k].cas = cas_versions[k]

C19_Witness ==
    /\ lock.owner = NoThread
    /\ \E t \in Threads :
        /\ pc[t] = "done"
        /\ op[t].name = "set"
        /\ Key(t) \in DOMAIN store
        /\ store[Key(t)].cas = 2
        /\ cas_versions[Key(t)] = 2
        /\ now > StartTime + 1
    /\ calls = 2

\* C20: under fair scheduling every call that waits for the lock returns with
\* the lock released by its thread, whichever way the method ends; the
\* nested acquisition by the set that replace, cas, incr and decr call never
\* blocks.
C20_EveryCallReturns ==
    \A t \in Threads :
        (pc[t] = "lock") ~> (pc[t] = "done" /\ lock.owner # t)

C20_Witness ==
    \E t \in Threads : \E u \in Threads \ {t} :
        /\ op[t].name \in {"replace", "cas", "incr", "decr"}
        /\ pc[t] = "set_body"
        /\ lock = [owner |-> t, count |-> 2]
        /\ pc[u] = "lock"

====
